---- MODULE Spec2Model ----
(***************************************************************************)
(* Model of aiogram_storages.py: the two FSM storages SQLiteStorage and    *)
(* PGStorage.  Each storage keeps one connection handle (self._db) onto a  *)
(* database with the tables aiogram_state, aiogram_data and                *)
(* aiogram_bucket.  Both storages are driven in lockstep by the same       *)
(* sequence of calls, so that their results can be compared call by call.  *)
(***************************************************************************)
EXTENDS Integers, Sequences, FiniteSets, TLC

VARIABLES
    self_db,     \* self_db[b]: the storage's handle self._db: "None", "open" or "closed"
    database,    \* database[b][t]: table t of the backend's database: [exists, rows]
    last,        \* the last call: its name, key, argument and each backend's result;
                 \* again: it repeats the call before it (same name and arguments)
    coro         \* the coroutines that run concurrently on the SQLiteStorage: each
                 \* task's position and locals, the connections opened, the call that
                 \* returned last; the whole-call actions leave it alone

vars == <<self_db, database, last, coro>>

(***************************************************************************)
(* Bounds of the model.                                                    *)
(***************************************************************************)
MaxUser == 2
MaxChat == 2
MaxVal == 2

Users == 1..MaxUser
Chats == 1..MaxChat
Backends == {"sqlite", "pg"}
TableNames == {"aiogram_state", "aiogram_data", "aiogram_bucket"}

(***************************************************************************)
(* Python values.  Optional[str] is a string, with None the Python None    *)
(* (no label of the model is spelled that way).  Optional[dict] is a       *)
(* record: PyNone, or PyDict(m) with m a function from keys to values.     *)
(***************************************************************************)
None == "None"
States == {"", "s1"}

KeyOrder == <<"a", "b">>
Keys == {KeyOrder[i] : i \in 1..Len(KeyOrder)}
Vals == 1..MaxVal
PyNone == [t |-> "none", m |-> <<>>]
PyDict(m) == [t |-> "dict", m |-> m]
EmptyDict == PyDict(<<>>)

\* bool(v) of an Optional[dict]: None and {} are falsy.
TruthyDict(v) == v.t = "dict" /\ DOMAIN v.m # {}

\* dict.update(data, **kwargs) on temp: data's items, then the keyword items, on top.
DictUpdate(temp, data, kwargs) == PyDict(kwargs.m @@ data.m @@ temp.m)

(***************************************************************************)
(* BaseStorage helpers the methods call.  An address argument is an int    *)
(* (PyInt), a string (PyStr(n): the decimal digits of n; BadStr: a string  *)
(* that is no number) or None.                                             *)
(***************************************************************************)
PyInt(n) == [t |-> "int", n |-> n]
PyStr(n) == [t |-> "str", n |-> n]
BadStr == [t |-> "str", n |-> -1]
NoAddr == [t |-> "none", n |-> 0]

\* check_address: both missing raises ValueError, one missing takes the other.
check_address_raises(chat, user) == chat.t = "none" /\ user.t = "none"
check_address(chat, user) ==
    IF user.t = "none" THEN <<chat, chat>>
    ELSE IF chat.t = "none" THEN <<user, user>>
    ELSE <<chat, user>>

\* int(x): an int is itself, a string of digits is its number, any other string
\* raises ValueError.
int_raises(x) == x.t = "str" /\ x.n < 0
int(x) == x.n

\* chat, user = map(int, self.check_address(chat=chat, user=user)) raises.
AddressRaises(chat, user) ==
    \/ check_address_raises(chat, user)
    \/ int_raises(check_address(chat, user)[1])
    \/ int_raises(check_address(chat, user)[2])
AddressChat(chat, user) == int(check_address(chat, user)[1])
AddressUser(chat, user) == int(check_address(chat, user)[2])

\* resolve_state: None stays None, a string is itself.
resolve_state(value) == value

(***************************************************************************)
(* jsonpickle.  The encoded text is the sequence of its tokens: "null", or *)
(* "{", one <<key, value>> member per item, "}".                           *)
(***************************************************************************)
KeySeq(m) == SelectSeq(KeyOrder, LAMBDA k : k \in DOMAIN m)
Members(m) == [i \in 1..Len(KeySeq(m)) |-> <<KeySeq(m)[i], m[KeySeq(m)[i]]>>]
jsonpickle_encode(v) ==
    IF v.t = "none" THEN <<"null">> ELSE <<"{">> \o Members(v.m) \o <<"}">>
jsonpickle_decode(text) ==
    IF text[1] = "null" THEN PyNone
    ELSE LET mem == SubSeq(text, 2, Len(text) - 1)
         IN  PyDict([k \in {mem[i][1] : i \in 1..Len(mem)} |->
                        mem[CHOOSE i \in 1..Len(mem) : mem[i][1] = k][2]])

(***************************************************************************)
(* The SQL statements the storages execute.  A table is [exists, rows]; a  *)
(* row is [user, chat, val], val the table's third column.                 *)
(***************************************************************************)
NoTable == [exists |-> FALSE, rows |-> {}]

\* CREATE TABLE IF NOT EXISTS
CreateTableIfNotExists(tb) == IF tb.exists THEN tb ELSE [exists |-> TRUE, rows |-> {}]

\* Mutant: the conflict is on ("user", "chat") instead of ("user").
InsertOnConflictUserChat(rows, user, chat, val) ==
    IF \E r \in rows : r.user = user /\ r.chat = chat
    THEN {IF r.user = user /\ r.chat = chat THEN [r EXCEPT !.val = val] ELSE r : r \in rows}
    ELSE rows \cup {[user |-> user, chat |-> chat, val |-> val]}

\* Mutant: a plain INSERT into a table without a key: the row is added.
InsertPlain(rows, user, chat, val) ==
    rows \cup {[user |-> user, chat |-> chat, val |-> val]}

\* INSERT INTO t VALUES(user, chat, val) ON CONFLICT ("user") DO UPDATE SET col = val
InsertOnConflictUpdate(rows, user, chat, val) ==
    IF \E r \in rows : r.user = user
    THEN {IF r.user = user THEN [r EXCEPT !.val = val] ELSE r : r \in rows}
    ELSE rows \cup {[user |-> user, chat |-> chat, val |-> val]}

\* Mutant: the DELETE filters on "chat" alone.
DeleteWhereChat(rows, chat, user) == {r \in rows : r.chat # chat}

\* Mutant: the DELETE filters on "user" alone.
DeleteWhereUser(rows, chat, user) == {r \in rows : r.user # user}

\* DELETE FROM t WHERE "chat"=chat AND "user"=user
DeleteWhere(rows, chat, user) == {r \in rows : ~(r.chat = chat /\ r.user = user)}

\* Mutant: the SELECT filters on "user" alone.
SelectFirstByUser(rows, chat, user) ==
    LET hit == {r \in rows : r.user = user}
    IN  IF hit = {} THEN <<>> ELSE <<(CHOOSE r \in hit : TRUE).val>>

\* SELECT col FROM t WHERE "chat"=chat AND "user"=user, first row: <<>> when no row
\* matches (fetchone and fetchval give None), else <<val>>.
SelectFirst(rows, chat, user) ==
    LET hit == {r \in rows : r.chat = chat /\ r.user = user}
    IN  IF hit = {} THEN <<>> ELSE <<(CHOOSE r \in hit : TRUE).val>>

(***************************************************************************)
(* A storage is st = [self_db, database].  A call's outcome is [st, res]:  *)
(* the storage after it, and res = [err, val]: the exception raised (""    *)
(* for none) and the value returned.                                       *)
(***************************************************************************)
Return(st, v) == [st |-> st, res |-> [err |-> "", val |-> v]]
Raise(st, kind) == [st |-> st, res |-> [err |-> kind, val |-> None]]

\* The exception a statement on table tbl raises: the connection was closed, or the
\* table does not exist.
ExecuteError(st, tbl) ==
    IF st.self_db = "closed" THEN "ConnectionClosed"
    ELSE IF ~st.database[tbl].exists THEN "NoSuchTable"
    ELSE ""

WithRows(st, tbl, rows) == [st EXCEPT !.database[tbl].rows = rows]
Rows(st, tbl) == st.database[tbl].rows

(***************************************************************************)
(* SQLiteStorage.  Every mutating statement is followed by db.commit(); a  *)
(* statement that raises leaves the database as it was.                    *)
(***************************************************************************)
SQLiteStorage_close(st) ==
    IF st.self_db # "None" THEN Return([st EXCEPT !.self_db = "closed"], None)
    ELSE Return(st, None)

SQLiteStorage_get_db(st) ==
    IF st.self_db # "None" THEN Return(st, st.self_db)
    ELSE Return([self_db |-> "open",
                 database |-> [t \in TableNames |-> CreateTableIfNotExists(st.database[t])]],
                "open")

\* Mutant: the connection is taken before the address is checked.
SQLiteStorage_set_state_db_first(st0, chat, user, state) ==
    LET st == SQLiteStorage_get_db(st0).st
    IN  IF AddressRaises(chat, user) THEN Raise(st, "ValueError")
        ELSE LET c == AddressChat(chat, user)
                 u == AddressUser(chat, user)
                 err == ExecuteError(st, "aiogram_state")
                 rows == Rows(st, "aiogram_state")
             IN  IF err # "" THEN Raise(st, err)
                 ELSE IF state # None
                 THEN Return(WithRows(st, "aiogram_state",
                                 InsertOnConflictUpdate(rows, u, c, resolve_state(state))), None)
                 ELSE Return(WithRows(st, "aiogram_state", DeleteWhere(rows, c, u)), None)

SQLiteStorage_set_state(st0, chat, user, state) ==
    IF AddressRaises(chat, user) THEN Raise(st0, "ValueError")
    ELSE LET c == AddressChat(chat, user)
             u == AddressUser(chat, user)
             st == SQLiteStorage_get_db(st0).st
             err == ExecuteError(st, "aiogram_state")
             rows == Rows(st, "aiogram_state")
         IN  IF err # "" THEN Raise(st, err)
             ELSE IF state # None
             THEN Return(WithRows(st, "aiogram_state",
                             InsertOnConflictUpdate(rows, u, c, resolve_state(state))), None)
             ELSE Return(WithRows(st, "aiogram_state", DeleteWhere(rows, c, u)), None)

SQLiteStorage_get_state(st0, chat, user, default) ==
    IF AddressRaises(chat, user) THEN Raise(st0, "ValueError")
    ELSE LET c == AddressChat(chat, user)
             u == AddressUser(chat, user)
             st == SQLiteStorage_get_db(st0).st
             err == ExecuteError(st, "aiogram_state")
             result == SelectFirst(Rows(st, "aiogram_state"), c, u)
         IN  IF err # "" THEN Raise(st, err)
             ELSE Return(st, IF Len(result) > 0 THEN result[1] ELSE resolve_state(default))

SQLiteStorage_set_data(st0, chat, user, data) ==
    IF AddressRaises(chat, user) THEN Raise(st0, "ValueError")
    ELSE LET c == AddressChat(chat, user)
             u == AddressUser(chat, user)
             st == SQLiteStorage_get_db(st0).st
             err == ExecuteError(st, "aiogram_data")
             rows == Rows(st, "aiogram_data")
         IN  IF err # "" THEN Raise(st, err)
             ELSE IF TruthyDict(data)
             THEN Return(WithRows(st, "aiogram_data",
                             InsertOnConflictUpdate(rows, u, c, jsonpickle_encode(data))), None)
             ELSE Return(WithRows(st, "aiogram_data", DeleteWhere(rows, c, u)), None)

\* Mutant: the default is returned as given, without "or {}".
SQLiteStorage_get_data_plain_default(st0, chat, user, default) ==
    IF AddressRaises(chat, user) THEN Raise(st0, "ValueError")
    ELSE LET c == AddressChat(chat, user)
             u == AddressUser(chat, user)
             st == SQLiteStorage_get_db(st0).st
             err == ExecuteError(st, "aiogram_data")
             result == SelectFirst(Rows(st, "aiogram_data"), c, u)
         IN  IF err # "" THEN Raise(st, err)
             ELSE Return(st, IF Len(result) > 0 THEN jsonpickle_decode(result[1])
                             ELSE default)

SQLiteStorage_get_data(st0, chat, user, default) ==
    IF AddressRaises(chat, user) THEN Raise(st0, "ValueError")
    ELSE LET c == AddressChat(chat, user)
             u == AddressUser(chat, user)
             st == SQLiteStorage_get_db(st0).st
             err == ExecuteError(st, "aiogram_data")
             result == SelectFirst(Rows(st, "aiogram_data"), c, u)
         IN  IF err # "" THEN Raise(st, err)
             ELSE Return(st, IF Len(result) > 0 THEN jsonpickle_decode(result[1])
                             ELSE IF TruthyDict(default) THEN default ELSE EmptyDict)

SQLiteStorage_update_data(st0, chat, user, data, kwargs) ==
    LET d == IF data.t = "none" THEN EmptyDict ELSE data
        got == SQLiteStorage_get_data(st0, chat, user, EmptyDict)
    IN  IF got.res.err # "" THEN got
        ELSE SQLiteStorage_set_data(got.st, chat, user, DictUpdate(got.res.val, d, kwargs))

SQLiteStorage_get_bucket(st0, chat, user, default) ==
    IF AddressRaises(chat, user) THEN Raise(st0, "ValueError")
    ELSE LET c == AddressChat(chat, user)
             u == AddressUser(chat, user)
             st == SQLiteStorage_get_db(st0).st
             err == ExecuteError(st, "aiogram_bucket")
             result == SelectFirst(Rows(st, "aiogram_bucket"), c, u)
         IN  IF err # "" THEN Raise(st, err)
             ELSE Return(st, IF Len(result) > 0 THEN jsonpickle_decode(result[1])
                             ELSE IF TruthyDict(default) THEN default ELSE EmptyDict)

\* Mutant: an empty or missing bucket deletes the row, as set_data does.
SQLiteStorage_set_bucket_or_delete(st0, chat, user, bucket) ==
    IF AddressRaises(chat, user) THEN Raise(st0, "ValueError")
    ELSE LET c == AddressChat(chat, user)
             u == AddressUser(chat, user)
             st == SQLiteStorage_get_db(st0).st
             err == ExecuteError(st, "aiogram_bucket")
             rows == Rows(st, "aiogram_bucket")
         IN  IF err # "" THEN Raise(st, err)
             ELSE IF TruthyDict(bucket)
             THEN Return(WithRows(st, "aiogram_bucket",
                             InsertOnConflictUpdate(rows, u, c, jsonpickle_encode(bucket))), None)
             ELSE Return(WithRows(st, "aiogram_bucket", DeleteWhere(rows, c, u)), None)

SQLiteStorage_set_bucket(st0, chat, user, bucket) ==
    IF AddressRaises(chat, user) THEN Raise(st0, "ValueError")
    ELSE LET c == AddressChat(chat, user)
             u == AddressUser(chat, user)
             st == SQLiteStorage_get_db(st0).st
             err == ExecuteError(st, "aiogram_bucket")
             rows == Rows(st, "aiogram_bucket")
         IN  IF err # "" THEN Raise(st, err)
             ELSE Return(WithRows(st, "aiogram_bucket",
                             InsertOnConflictUpdate(rows, u, c, jsonpickle_encode(bucket))), None)

\* temp_bucket.update(...) on a bucket that decoded to None raises AttributeError.
SQLiteStorage_update_bucket(st0, chat, user, bucket, kwargs) ==
    LET b == IF bucket.t = "none" THEN EmptyDict ELSE bucket
        got == SQLiteStorage_get_bucket(st0, chat, user, PyNone)
    IN  IF got.res.err # "" THEN got
        ELSE IF got.res.val.t = "none" THEN Raise(got.st, "AttributeError")
        ELSE SQLiteStorage_set_bucket(got.st, chat, user, DictUpdate(got.res.val, b, kwargs))

\* DROP TABLE, one statement after the other: the first that raises ends the call
\* and keeps the drops made before it.
RECURSIVE DropTables(_, _)
DropTables(st, tbls) ==
    IF tbls = <<>> THEN Return(st, None)
    ELSE IF ExecuteError(st, Head(tbls)) # "" THEN Raise(st, ExecuteError(st, Head(tbls)))
    ELSE DropTables([st EXCEPT !.database[Head(tbls)] = NoTable], Tail(tbls))

\* Mutant: full is ignored, all three tables are dropped.
SQLiteStorage_reset_all_always_full(st0, full) ==
    LET st == SQLiteStorage_get_db(st0).st
    IN  DropTables(st, <<"aiogram_state", "aiogram_data", "aiogram_bucket">>)

SQLiteStorage_reset_all(st0, full) ==
    LET st == SQLiteStorage_get_db(st0).st
    IN  DropTables(st, IF full THEN <<"aiogram_state", "aiogram_data", "aiogram_bucket">>
                       ELSE <<"aiogram_state">>)

\* [(int(item[1]), int(item[0])) for item in items]: column 0 is user, column 1 chat.
SQLiteStorage_get_states_list(st0) ==
    LET st == SQLiteStorage_get_db(st0).st
        err == ExecuteError(st, "aiogram_state")
    IN  IF err # "" THEN Raise(st, err)
        ELSE Return(st, {<<r.chat, r.user>> : r \in Rows(st, "aiogram_state")})

(***************************************************************************)
(* PGStorage.  asyncpg commits each statement; fetchval gives the first    *)
(* column of the first row, or None when no row matches.                   *)
(***************************************************************************)
\* bool(result) of what fetchval gave: None and an empty text are falsy.
TruthyText(result) == Len(result) > 0 /\ Len(result[1]) > 0

PGStorage_close(st) ==
    IF st.self_db # "None" THEN Return([st EXCEPT !.self_db = "closed"], None)
    ELSE Return(st, None)

PGStorage_get_db(st) ==
    IF st.self_db # "None" THEN Return(st, st.self_db)
    ELSE Return([self_db |-> "open",
                 database |-> [t \in TableNames |-> CreateTableIfNotExists(st.database[t])]],
                "open")

PGStorage_set_state(st0, chat, user, state) ==
    IF AddressRaises(chat, user) THEN Raise(st0, "ValueError")
    ELSE LET c == AddressChat(chat, user)
             u == AddressUser(chat, user)
             st == PGStorage_get_db(st0).st
             err == ExecuteError(st, "aiogram_state")
             rows == Rows(st, "aiogram_state")
         IN  IF err # "" THEN Raise(st, err)
             ELSE IF state # None
             THEN Return(WithRows(st, "aiogram_state",
                             InsertOnConflictUpdate(rows, u, c, resolve_state(state))), None)
             ELSE Return(WithRows(st, "aiogram_state", DeleteWhere(rows, c, u)), None)

PGStorage_get_state(st0, chat, user, default) ==
    IF AddressRaises(chat, user) THEN Raise(st0, "ValueError")
    ELSE LET c == AddressChat(chat, user)
             u == AddressUser(chat, user)
             st == PGStorage_get_db(st0).st
             err == ExecuteError(st, "aiogram_state")
             result == SelectFirst(Rows(st, "aiogram_state"), c, u)
         IN  IF err # "" THEN Raise(st, err)
             ELSE Return(st, IF TruthyText(result) THEN result[1] ELSE resolve_state(default))

PGStorage_set_data(st0, chat, user, data) ==
    IF AddressRaises(chat, user) THEN Raise(st0, "ValueError")
    ELSE LET c == AddressChat(chat, user)
             u == AddressUser(chat, user)
             st == PGStorage_get_db(st0).st
             err == ExecuteError(st, "aiogram_data")
             rows == Rows(st, "aiogram_data")
         IN  IF err # "" THEN Raise(st, err)
             ELSE IF TruthyDict(data)
             THEN Return(WithRows(st, "aiogram_data",
                             InsertOnConflictUpdate(rows, u, c, jsonpickle_encode(data))), None)
             ELSE Return(WithRows(st, "aiogram_data", DeleteWhere(rows, c, u)), None)

PGStorage_get_data(st0, chat, user, default) ==
    IF AddressRaises(chat, user) THEN Raise(st0, "ValueError")
    ELSE LET c == AddressChat(chat, user)
             u == AddressUser(chat, user)
             st == PGStorage_get_db(st0).st
             err == ExecuteError(st, "aiogram_data")
             result == SelectFirst(Rows(st, "aiogram_data"), c, u)
         IN  IF err # "" THEN Raise(st, err)
             ELSE Return(st, IF TruthyText(result) THEN jsonpickle_decode(result[1])
                             ELSE IF TruthyDict(default) THEN default ELSE EmptyDict)

PGStorage_update_data(st0, chat, user, data, kwargs) ==
    LET d == IF data.t = "none" THEN EmptyDict ELSE data
        got == PGStorage_get_data(st0, chat, user, EmptyDict)
    IN  IF got.res.err # "" THEN got
        ELSE PGStorage_set_data(got.st, chat, user, DictUpdate(got.res.val, d, kwargs))

PGStorage_get_bucket(st0, chat, user, default) ==
    IF AddressRaises(chat, user) THEN Raise(st0, "ValueError")
    ELSE LET c == AddressChat(chat, user)
             u == AddressUser(chat, user)
             st == PGStorage_get_db(st0).st
             err == ExecuteError(st, "aiogram_bucket")
             result == SelectFirst(Rows(st, "aiogram_bucket"), c, u)
         IN  IF err # "" THEN Raise(st, err)
             ELSE Return(st, IF TruthyText(result) THEN jsonpickle_decode(result[1])
                             ELSE IF TruthyDict(default) THEN default ELSE EmptyDict)

PGStorage_set_bucket(st0, chat, user, bucket) ==
    IF AddressRaises(chat, user) THEN Raise(st0, "ValueError")
    ELSE LET c == AddressChat(chat, user)
             u == AddressUser(chat, user)
             st == PGStorage_get_db(st0).st
             err == ExecuteError(st, "aiogram_bucket")
             rows == Rows(st, "aiogram_bucket")
         IN  IF err # "" THEN Raise(st, err)
             ELSE Return(WithRows(st, "aiogram_bucket",
                             InsertOnConflictUpdate(rows, u, c, jsonpickle_encode(bucket))), None)

\* temp_bucket.update(...) on a bucket that decoded to None raises AttributeError.
PGStorage_update_bucket(st0, chat, user, bucket, kwargs) ==
    LET b == IF bucket.t = "none" THEN EmptyDict ELSE bucket
        got == PGStorage_get_bucket(st0, chat, user, PyNone)
    IN  IF got.res.err # "" THEN got
        ELSE IF got.res.val.t = "none" THEN Raise(got.st, "AttributeError")
        ELSE PGStorage_set_bucket(got.st, chat, user, DictUpdate(got.res.val, b, kwargs))

PGStorage_reset_all(st0, full) ==
    LET st == PGStorage_get_db(st0).st
    IN  DropTables(st, IF full THEN <<"aiogram_state", "aiogram_data", "aiogram_bucket">>
                       ELSE <<"aiogram_state">>)

\* [(int(item['chat']), int(item['user'])) for item in map(dict, items)]
PGStorage_get_states_list(st0) ==
    LET st == PGStorage_get_db(st0).st
        err == ExecuteError(st, "aiogram_state")
    IN  IF err # "" THEN Raise(st, err)
        ELSE Return(st, {<<r.chat, r.user>> : r \in Rows(st, "aiogram_state")})

(***************************************************************************)
(* The method of the storage class of backend b.                           *)
(***************************************************************************)
Storage_close(b, st) ==
    IF b = "sqlite" THEN SQLiteStorage_close(st) ELSE PGStorage_close(st)
Storage_get_db(b, st) ==
    IF b = "sqlite" THEN SQLiteStorage_get_db(st) ELSE PGStorage_get_db(st)
Storage_reset_all(b, st, full) ==
    IF b = "sqlite" THEN SQLiteStorage_reset_all(st, full) ELSE PGStorage_reset_all(st, full)
Storage_get_states_list(b, st) ==
    IF b = "sqlite" THEN SQLiteStorage_get_states_list(st) ELSE PGStorage_get_states_list(st)
Storage_set_state(b, st, chat, user, state) ==
    IF b = "sqlite" THEN SQLiteStorage_set_state(st, chat, user, state) ELSE PGStorage_set_state(st, chat, user, state)
Storage_get_state(b, st, chat, user, default) ==
    IF b = "sqlite" THEN SQLiteStorage_get_state(st, chat, user, default) ELSE PGStorage_get_state(st, chat, user, default)
Storage_set_data(b, st, chat, user, data) ==
    IF b = "sqlite" THEN SQLiteStorage_set_data(st, chat, user, data) ELSE PGStorage_set_data(st, chat, user, data)
Storage_get_data(b, st, chat, user, default) ==
    IF b = "sqlite" THEN SQLiteStorage_get_data(st, chat, user, default) ELSE PGStorage_get_data(st, chat, user, default)
Storage_update_data(b, st, chat, user, data, kwargs) ==
    IF b = "sqlite" THEN SQLiteStorage_update_data(st, chat, user, data, kwargs) ELSE PGStorage_update_data(st, chat, user, data, kwargs)
Storage_get_bucket(b, st, chat, user, default) ==
    IF b = "sqlite" THEN SQLiteStorage_get_bucket(st, chat, user, default) ELSE PGStorage_get_bucket(st, chat, user, default)
Storage_set_bucket(b, st, chat, user, bucket) ==
    IF b = "sqlite" THEN SQLiteStorage_set_bucket(st, chat, user, bucket) ELSE PGStorage_set_bucket(st, chat, user, bucket)
Storage_update_bucket(b, st, chat, user, bucket, kwargs) ==
    IF b = "sqlite" THEN SQLiteStorage_update_bucket(st, chat, user, bucket, kwargs) ELSE PGStorage_update_bucket(st, chat, user, bucket, kwargs)

(***************************************************************************)
(* The calls.  Each call is made on both storages, each from its own state.*)
(***************************************************************************)
Store(b) == [self_db |-> self_db[b], database |-> database[b]]

\* out[b] is the outcome of the call on storage b.
Step(op, chat, user, arg, out) ==
    \E o \in {out} :
        /\ self_db' = [b \in Backends |-> o[b].st.self_db]
        /\ database' = [b \in Backends |-> o[b].st.database]
        /\ last' = [op |-> op, chat |-> chat, user |-> user, arg |-> arg,
                    res |-> [b \in Backends |-> o[b].res],
                    again |-> (last.op = op /\ last.chat = chat /\ last.user = user
                               /\ last.arg = arg)]
        /\ UNCHANGED coro

\* A task that has made no call yet, and the record of no call.
Tasks == {1, 2}
IdleTask ==
    [pc |-> "idle", op |-> "", chat |-> NoAddr, user |-> NoAddr, data |-> EmptyDict,
     temp |-> PyNone, alone |-> TRUE]
NoCall ==
    [op |-> "", chat |-> NoAddr, user |-> NoAddr, data |-> EmptyDict, alone |-> FALSE,
     err |-> ""]

Init ==
    /\ coro = [task |-> [t \in Tasks |-> IdleTask], opened |-> 0, prev |-> NoCall]
    /\ self_db = [b \in Backends |-> "None"]
    /\ database = [b \in Backends |-> [t \in TableNames |-> NoTable]]
    /\ last = [op |-> "__init__", chat |-> NoAddr, user |-> NoAddr, arg |-> None,
               res |-> [b \in Backends |-> [err |-> "", val |-> None]], again |-> FALSE]

\* A new storage object on the same database (the bot starts again): self._db = None.
NewStorage ==
    Step("__init__", NoAddr, NoAddr, None,
         [b \in Backends |-> Return([Store(b) EXCEPT !.self_db = "None"], None)])

close ==
    Step("close", NoAddr, NoAddr, None,
         [b \in Backends |-> Storage_close(b, Store(b))])

get_db ==
    Step("get_db", NoAddr, NoAddr, None,
         [b \in Backends |-> Storage_get_db(b, Store(b))])

reset_all(full) ==
    Step("reset_all", NoAddr, NoAddr, full,
         [b \in Backends |-> Storage_reset_all(b, Store(b), full)])

get_states_list ==
    Step("get_states_list", NoAddr, NoAddr, None,
         [b \in Backends |-> Storage_get_states_list(b, Store(b))])

set_state(chat, user, state) ==
    Step("set_state", chat, user, state,
         [b \in Backends |-> Storage_set_state(b, Store(b), chat, user, state)])

get_state(chat, user, default) ==
    Step("get_state", chat, user, default,
         [b \in Backends |-> Storage_get_state(b, Store(b), chat, user, default)])

set_data(chat, user, data) ==
    Step("set_data", chat, user, data,
         [b \in Backends |-> Storage_set_data(b, Store(b), chat, user, data)])

get_data(chat, user, default) ==
    Step("get_data", chat, user, default,
         [b \in Backends |-> Storage_get_data(b, Store(b), chat, user, default)])

update_data(chat, user, data, kwargs) ==
    Step("update_data", chat, user, <<data, kwargs>>,
         [b \in Backends |-> Storage_update_data(b, Store(b), chat, user, data, kwargs)])

get_bucket(chat, user, default) ==
    Step("get_bucket", chat, user, default,
         [b \in Backends |-> Storage_get_bucket(b, Store(b), chat, user, default)])

set_bucket(chat, user, bucket) ==
    Step("set_bucket", chat, user, bucket,
         [b \in Backends |-> Storage_set_bucket(b, Store(b), chat, user, bucket)])

update_bucket(chat, user, bucket, kwargs) ==
    Step("update_bucket", chat, user, <<bucket, kwargs>>,
         [b \in Backends |-> Storage_update_bucket(b, Store(b), chat, user, bucket, kwargs)])

(***************************************************************************)
(* Inputs and specifications.                                              *)
(***************************************************************************)
IntChats == {PyInt(n) : n \in Chats}
IntUsers == {PyInt(n) : n \in Users}
OptStates == States \cup {None}
\* A default no state is equal to, and no default.
Defaults == {"d", None}

ConnNext ==
    \/ get_db
    \/ close
    \/ NewStorage
    \/ \E full \in BOOLEAN : reset_all(full)

\* The state table's calls.
StateNext ==
    \/ \E chat \in IntChats, user \in IntUsers, state \in OptStates :
          set_state(chat, user, state)
    \/ \E chat \in IntChats, user \in IntUsers, default \in Defaults :
          get_state(chat, user, default)
    \/ get_states_list
    \/ ConnNext

SpecState == Init /\ [][StateNext]_vars

\* Mappings given to set_data, set_bucket and the updates, and defaults given to
\* get_data and get_bucket.
SetDicts == {PyNone, EmptyDict, PyDict([k \in {"a"} |-> 1]), PyDict([k \in Keys |-> 1])}
UpdateDicts ==
    {PyNone} \cup {PyDict([k \in {"b"} |-> v]) : v \in Vals \ {1}}
             \cup {PyDict([k \in Keys |-> MaxVal])}
Kwargs == {EmptyDict, PyDict([k \in {"b"} |-> 1])}
DictDefaults == {PyNone, EmptyDict, PyDict([k \in {"a"} |-> 1])}
OneUser == {PyInt(1)}

\* The data table's calls, for one user under every chat.
DataNext ==
    \/ \E chat \in IntChats, user \in OneUser, data \in SetDicts :
          set_data(chat, user, data)
    \/ \E chat \in IntChats, user \in OneUser, default \in DictDefaults :
          get_data(chat, user, default)
    \/ \E chat \in IntChats, user \in OneUser, data \in UpdateDicts, kwargs \in Kwargs :
          update_data(chat, user, data, kwargs)
    \/ ConnNext

SpecData == Init /\ [][DataNext]_vars

\* The bucket table's calls and set_data, for one user under every chat.
BucketNext ==
    \/ \E chat \in IntChats, user \in OneUser, bucket \in SetDicts :
          set_bucket(chat, user, bucket)
    \/ \E chat \in IntChats, user \in OneUser, default \in DictDefaults :
          get_bucket(chat, user, default)
    \/ \E chat \in IntChats, user \in OneUser, bucket \in UpdateDicts, kwargs \in Kwargs :
          update_bucket(chat, user, bucket, kwargs)
    \/ \E chat \in IntChats, user \in OneUser, data \in {EmptyDict, PyDict([k \in {"a"} |-> 1])} :
          set_data(chat, user, data)
    \/ ConnNext

SpecBucket == Init /\ [][BucketNext]_vars

\* Every call, for two users (the first and the last) under one chat.
OneChat == {PyInt(1)}
TwoUsers == {PyInt(1), PyInt(MaxUser)}
OneDict == PyDict([k \in {"a"} |-> 1])

Next ==
    \/ \E chat \in OneChat, user \in TwoUsers, state \in OptStates :
          set_state(chat, user, state)
    \/ \E chat \in OneChat, user \in TwoUsers : get_state(chat, user, "d")
    \/ \E chat \in OneChat, user \in TwoUsers, data \in {OneDict, EmptyDict} :
          set_data(chat, user, data)
    \/ \E chat \in OneChat, user \in TwoUsers : get_data(chat, user, PyNone)
    \/ \E chat \in OneChat, user \in TwoUsers : update_data(chat, user, OneDict, EmptyDict)
    \/ \E chat \in OneChat, user \in TwoUsers, bucket \in {OneDict, PyNone} :
          set_bucket(chat, user, bucket)
    \/ \E chat \in OneChat, user \in TwoUsers : get_bucket(chat, user, PyNone)
    \/ \E chat \in OneChat, user \in TwoUsers : update_bucket(chat, user, OneDict, EmptyDict)
    \/ get_states_list
    \/ ConnNext

Spec == Init /\ [][Next]_vars

\* Every keyed call for one key, with the address given as an int, as a string of
\* digits, as a string that is no number, or left out.
ChatArgs == {PyInt(1), BadStr, NoAddr}
UserArgs == {PyInt(1), PyStr(1), BadStr, NoAddr}

AddrNext ==
    \/ \E chat \in ChatArgs, user \in UserArgs, state \in {"s1", None} :
          set_state(chat, user, state)
    \/ \E chat \in ChatArgs, user \in UserArgs : get_state(chat, user, "d")
    \/ \E chat \in ChatArgs, user \in UserArgs, data \in {OneDict, EmptyDict} :
          set_data(chat, user, data)
    \/ \E chat \in ChatArgs, user \in UserArgs : get_data(chat, user, PyNone)
    \/ \E chat \in ChatArgs, user \in UserArgs : update_data(chat, user, OneDict, EmptyDict)
    \/ \E chat \in ChatArgs, user \in UserArgs : set_bucket(chat, user, OneDict)
    \/ \E chat \in ChatArgs, user \in UserArgs : get_bucket(chat, user, PyNone)
    \/ \E chat \in ChatArgs, user \in UserArgs : update_bucket(chat, user, OneDict, EmptyDict)
    \/ ConnNext

SpecAddr == Init /\ [][AddrNext]_vars

\* The three set calls, for two users (the first and the last) under two chats (the
\* first and the last): a value to store, and the value that makes set_state and
\* set_data delete.
TwoChats == {PyInt(1), PyInt(MaxChat)}

SetNext ==
    \/ \E chat \in TwoChats, user \in TwoUsers, state \in {"s1", None} :
          set_state(chat, user, state)
    \/ \E chat \in TwoChats, user \in TwoUsers, data \in {OneDict, EmptyDict} :
          set_data(chat, user, data)
    \/ \E chat \in TwoChats, user \in TwoUsers : set_bucket(chat, user, OneDict)
    \/ ConnNext

SpecSet == Init /\ [][SetNext]_vars

(***************************************************************************)
(* Concurrent calls on one SQLiteStorage.  A task runs update_data or      *)
(* update_bucket; it is suspended at each await of a connection operation, *)
(* and another task may run then.  aiosqlite runs the statements of a      *)
(* connection one after the other in the order they were submitted, so a   *)
(* statement takes effect in one step.  pc is the await the task is        *)
(* suspended at: "connect" (line 31), "create_state", "create_data",       *)
(* "create_bucket" (lines 32, 36, 40), "select" (the SELECT in get_data or *)
(* get_bucket), "upsert" (the statement and commit in set_data or          *)
(* set_bucket).  alone: no other task has run since this call started.     *)
(***************************************************************************)
Running(t) == coro.task[t].pc \notin {"idle", "done"}

\* A step of task t: the calls of the other tasks that are under way are no longer
\* alone.
Interleave(task, t) ==
    [o \in Tasks |-> IF o # t /\ Running(o) THEN [task[o] EXCEPT !.alone = FALSE]
                     ELSE task[o]]

\* get_db up to its first await: a handle that is set is returned at once and the
\* caller goes on to its statement, otherwise the connection is opened.
get_db_enter == IF self_db["sqlite"] # "None" THEN "select" ELSE "connect"

\* The task calls update_data or update_bucket: the address is checked, get_data or
\* get_bucket enters get_db.
Call(t, op, chat, user, data) ==
    /\ ~Running(t)
    /\ coro' = [coro EXCEPT
                  !.task = Interleave([coro.task EXCEPT ![t] =
                              [pc |-> get_db_enter, op |-> op, chat |-> chat, user |-> user,
                               data |-> data, temp |-> PyNone, alone |-> TRUE]], t)]
    /\ UNCHANGED <<self_db, database, last>>

\* self._db = await aiosqlite.connect(...): the connection is open, the handle is set.
Connected(t) ==
    /\ coro.task[t].pc = "connect"
    /\ self_db' = [self_db EXCEPT !["sqlite"] = "open"]
    /\ coro' = [coro EXCEPT
                  !.task = Interleave([coro.task EXCEPT ![t].pc = "create_state"], t),
                  !.opened = @ + 1]
    /\ UNCHANGED <<database, last>>

\* await self._db.execute(CREATE TABLE IF NOT EXISTS ...); after the third one get_db
\* returns the handle.
Created(t, tbl, pc) ==
    /\ coro.task[t].pc = "create_" \o tbl
    /\ database' = [database EXCEPT
                      !["sqlite"]["aiogram_" \o tbl] = CreateTableIfNotExists(@)]
    /\ coro' = [coro EXCEPT !.task = Interleave([coro.task EXCEPT ![t].pc = pc], t)]
    /\ UNCHANGED <<self_db, last>>

\* The call of task t returns or raises.
Returned(task, t, err) ==
    [op |-> task[t].op, chat |-> task[t].chat, user |-> task[t].user,
     data |-> task[t].data, alone |-> task[t].alone, err |-> err]

\* get_data or get_bucket reads, and the task merges its mapping into what was read;
\* set_data or set_bucket is entered and finds the handle set.
Selected(t) ==
    LET me == coro.task[t]
        got == IF me.op = "update_data"
               THEN SQLiteStorage_get_data(Store("sqlite"), me.chat, me.user, EmptyDict)
               ELSE SQLiteStorage_get_bucket(Store("sqlite"), me.chat, me.user, PyNone)
        err == IF got.res.err # "" THEN got.res.err
               ELSE IF got.res.val.t = "none" THEN "AttributeError" ELSE ""
    IN  /\ me.pc = "select"
        /\ coro' = IF err # ""
                   THEN [coro EXCEPT
                           !.task = Interleave([coro.task EXCEPT ![t].pc = "done"], t),
                           !.prev = Returned(coro.task, t, err)]
                   ELSE [coro EXCEPT
                           !.task = Interleave([coro.task EXCEPT
                                        ![t].pc = "upsert",
                                        ![t].temp = DictUpdate(got.res.val, me.data, EmptyDict)], t)]
        /\ UNCHANGED <<self_db, database, last>>

\* set_data or set_bucket writes the merged mapping and the call returns.
Upserted(t) ==
    LET me == coro.task[t]
        out == IF me.op = "update_data"
               THEN SQLiteStorage_set_data(Store("sqlite"), me.chat, me.user, me.temp)
               ELSE SQLiteStorage_set_bucket(Store("sqlite"), me.chat, me.user, me.temp)
    IN  /\ me.pc = "upsert"
        /\ database' = [database EXCEPT !["sqlite"] = out.st.database]
        /\ coro' = [coro EXCEPT
                      !.task = Interleave([coro.task EXCEPT ![t].pc = "done",
                                                             ![t].temp = PyNone], t),
                      !.prev = Returned(coro.task, t, out.res.err)]
        /\ UNCHANGED <<self_db, last>>

\* Task 1 merges {'a': 1}, task 2 merges {'b': 1}.
TaskDict(t) == PyDict([k \in {KeyOrder[t]} |-> 1])

AsyncNext ==
    \/ \E t \in Tasks, op \in {"update_data", "update_bucket"}, chat \in TwoChats,
          user \in OneUser : Call(t, op, chat, user, TaskDict(t))
    \/ \E t \in Tasks : Connected(t)
    \/ \E t \in Tasks : Created(t, "state", "create_data")
    \/ \E t \in Tasks : Created(t, "data", "create_bucket")
    \/ \E t \in Tasks : Created(t, "bucket", "select")
    \/ \E t \in Tasks : Selected(t)
    \/ \E t \in Tasks : Upserted(t)

SpecAsync == Init /\ [][AsyncNext]_vars

(***************************************************************************)
(* Properties.                                                             *)
(***************************************************************************)
Ok(b) == last.res[b].err = ""
LastChat == AddressChat(last.chat, last.user)
LastUser == AddressUser(last.chat, last.user)
RowsOf(b, tbl, u) == {r \in database[b][tbl].rows : r.user = u}

\* C1: when set_state(c,u,s) with s not None has returned twice in a row, the state
\* table holds exactly one row for user u, and that row's state is s.
C1_UpsertTwiceOneRow ==
    \A b \in Backends :
        (last.op = "set_state" /\ last.again /\ last.arg # None /\ Ok(b))
        => /\ Cardinality(RowsOf(b, "aiogram_state", LastUser)) = 1
           /\ \A r \in RowsOf(b, "aiogram_state", LastUser) : r.val = last.arg

\* The second of two equal set_state calls has returned, on a row of u that an
\* earlier call stored under another chat.
C1_Witness ==
    /\ last.op = "set_state" /\ last.again /\ last.arg = "s1"
    /\ \A b \in Backends :
          /\ Ok(b)
          /\ \E r \in RowsOf(b, "aiogram_state", LastUser) : r.chat # LastChat

\* C2: right after set_state(c,u,None) has returned, get_state(c,u,default=D) returns
\* D, for every D, also when a row of u stored under another chat is still there.
C2_DeleteThenGetDefault ==
    \A b \in Backends :
        (last.op = "set_state" /\ last.arg = None /\ Ok(b))
        => \A D \in Defaults :
              Storage_get_state(b, Store(b), last.chat, last.user, D).res
                  = [err |-> "", val |-> D]

\* set_state(c,u,None) has returned, a row of u is left (it was stored under another
\* chat), and get_state(c,u,default="d") gives "d".
C2_Witness ==
    /\ last.op = "set_state" /\ last.arg = None
    /\ \A b \in Backends :
          /\ Ok(b)
          /\ RowsOf(b, "aiogram_state", LastUser) # {}
          /\ Storage_get_state(b, Store(b), last.chat, last.user, "d").res.val = "d"

\* C5 as claimed: what get_states_list() returns holds the pair (c,u) if and only if
\* get_state(c,u,default=None) returns a state that is not None.
C5_ListIffState ==
    \A b \in Backends :
        (last.op = "get_states_list" /\ Ok(b))
        => \A c \in Chats, u \in Users :
              (<<c, u>> \in last.res[b].val)
              <=> (Storage_get_state(b, Store(b), PyInt(c), PyInt(u), None).res.val # None)

\* C8 as claimed: the connection get_db returns is open.
C8_GetDbLive ==
    \A b \in Backends : (last.op = "get_db" /\ Ok(b)) => last.res[b].val = "open"

\* C9 as claimed: reset_all does not raise for a table that is already absent.
C9_ResetAllTolerant ==
    \A b \in Backends : last.op = "reset_all" => last.res[b].err # "NoSuchTable"

StoreNext(b) == [self_db |-> self_db'[b], database |-> database'[b]]
RowsOfNext(b, tbl, u) == {r \in database'[b][tbl].rows : r.user = u}
KeyedOps == {"set_state", "get_state", "set_data", "get_data", "update_data",
             "set_bucket", "get_bucket", "update_bucket"}
GetOps == {"get_state", "get_data", "get_bucket", "get_states_list"}

\* C3 as claimed: when update_data(c,u,P,**K) returns, get_data(c,u) gives what
\* get_data(c,u) gave just before it, overlaid with P and then with K.
C3_UpdateDataMerges ==
    [][\A b \in Backends :
          (last'.op = "update_data" /\ last'.res[b].err = "")
          => LET P == IF last'.arg[1].t = "none" THEN EmptyDict ELSE last'.arg[1]
                 K == last'.arg[2]
                 M == Storage_get_data(b, Store(b), last'.chat, last'.user, PyNone).res.val
             IN  Storage_get_data(b, StoreNext(b), last'.chat, last'.user, PyNone).res
                     = [err |-> "", val |-> DictUpdate(M, P, K)]]_vars

\* C4: when set_bucket(c,u,b) has returned there is a bucket row for user u, also for
\* b = {} and b = None; when set_data(c,u,{}) has returned there is no data row with
\* chat c and user u; and a step after which user u's bucket row is gone is a
\* reset_all(full=True).
C4_BucketImmortal ==
    [][\A b \in Backends :
          /\ (last'.op = "set_bucket" /\ last'.res[b].err = "")
             => RowsOfNext(b, "aiogram_bucket", AddressUser(last'.chat, last'.user)) # {}
          /\ (last'.op = "set_data" /\ ~TruthyDict(last'.arg) /\ last'.res[b].err = "")
             => ~\E r \in database'[b]["aiogram_data"].rows :
                    /\ r.chat = AddressChat(last'.chat, last'.user)
                    /\ r.user = AddressUser(last'.chat, last'.user)
          /\ \A u \in Users :
                (RowsOf(b, "aiogram_bucket", u) # {} /\ RowsOfNext(b, "aiogram_bucket", u) = {})
                => (last'.op = "reset_all" /\ last'.arg = TRUE)]_vars

\* set_data(c,u,{}) has returned and left no data row for u, while the bucket row
\* that set_bucket made for u from None is still there.
C4_Witness ==
    /\ last.op = "set_data" /\ last.arg = EmptyDict
    /\ \A b \in Backends :
          /\ Ok(b)
          /\ RowsOf(b, "aiogram_data", LastUser) = {}
          /\ \E r \in RowsOf(b, "aiogram_bucket", LastUser) : r.val = <<"null">>

\* C6: when reset_all(full) returns, the state table holds no row; with full=False
\* the rows of the data and bucket tables are the ones from before the call; with
\* full=True the data and bucket tables hold no row either.
C6_ResetAllFrame ==
    [][\A b \in Backends :
          (last'.op = "reset_all" /\ last'.res[b].err = "")
          => /\ database'[b]["aiogram_state"].rows = {}
             /\ last'.arg = FALSE
                => /\ database'[b]["aiogram_data"].rows = database[b]["aiogram_data"].rows
                   /\ database'[b]["aiogram_bucket"].rows = database[b]["aiogram_bucket"].rows
             /\ last'.arg = TRUE
                => /\ database'[b]["aiogram_data"].rows = {}
                   /\ database'[b]["aiogram_bucket"].rows = {}]_vars

\* reset_all(full=False) has returned: the state table is gone, the data and bucket
\* tables still hold their rows.
C6_Witness ==
    /\ last.op = "reset_all" /\ last.arg = FALSE
    /\ \A b \in Backends :
          /\ Ok(b)
          /\ ~database[b]["aiogram_state"].exists
          /\ database[b]["aiogram_data"].rows # {}
          /\ database[b]["aiogram_bucket"].rows # {}

\* C7 as claimed: get_state, get_data, get_bucket and get_states_list give the same
\* result on SQLiteStorage and on PGStorage.
C7_BackendsAgree ==
    last.op \in GetOps => last.res["sqlite"] = last.res["pg"]

\* C10: a keyed call whose chat or user is no integer (or that has neither) raises
\* ValueError, the address error, and leaves the handle self._db and every table as
\* they were: no connection is opened, no row changes.
C10_AddressErrorFirst ==
    [][\A b \in Backends :
          (last'.op \in KeyedOps /\ AddressRaises(last'.chat, last'.user))
          => /\ last'.res[b].err = "ValueError"
             /\ self_db'[b] = self_db[b]
             /\ database'[b] = database[b]]_vars

\* update_bucket with a chat that is no number has raised ValueError on a storage
\* that has no connection yet.
C10_Witness ==
    /\ last.op = "update_bucket" /\ last.chat = BadStr
    /\ \A b \in Backends : last.res[b].err = "ValueError" /\ self_db[b] = "None"

\* C11: in every reachable state each of the three tables holds at most one row per
\* user, whatever chats the set calls for that user were made under.
C11_OneRowPerUser ==
    \A b \in Backends, t \in TableNames, u \in Users :
        Cardinality(RowsOf(b, t, u)) <= 1

\* set_bucket(c,u,...) has returned, and in each of the three tables the row of u is
\* one that was stored under another chat than c.
C11_Witness ==
    /\ last.op = "set_bucket"
    /\ \A b \in Backends :
          /\ Ok(b)
          /\ \A t \in TableNames : \E r \in RowsOf(b, t, LastUser) : r.chat # LastChat

\* C12: on a storage whose connection is not closed, when the state table holds a row
\* of user u stored under chat c, set_state(c2,u,None) with c2 # c raises nothing and
\* leaves the state table's rows as they were, and get_states_list() still holds
\* (c,u); likewise set_data(c2,u,{}) raises nothing and leaves the data table's rows
\* as they were when u's data row was stored under c.
C12_StaleChatDeleteMiss ==
    [][\A b \in Backends :
          /\ (last'.op = "set_state" /\ last'.arg = None /\ self_db[b] # "closed")
             => \A r \in RowsOf(b, "aiogram_state", AddressUser(last'.chat, last'.user)) :
                   r.chat # AddressChat(last'.chat, last'.user)
                   => /\ last'.res[b].err = ""
                      /\ database'[b]["aiogram_state"].rows = database[b]["aiogram_state"].rows
                      /\ <<r.chat, r.user>> \in Storage_get_states_list(b, StoreNext(b)).res.val
          /\ (last'.op = "set_data" /\ ~TruthyDict(last'.arg) /\ self_db[b] # "closed")
             => \A r \in RowsOf(b, "aiogram_data", AddressUser(last'.chat, last'.user)) :
                   r.chat # AddressChat(last'.chat, last'.user)
                   => /\ last'.res[b].err = ""
                      /\ database'[b]["aiogram_data"].rows = database[b]["aiogram_data"].rows]_vars

\* set_data(c2,u,{}) has returned without error while the data row and the state row
\* of u, both stored under another chat, are there, and get_states_list() holds the
\* state row's pair.
C12_Witness ==
    /\ last.op = "set_data" /\ last.arg = EmptyDict
    /\ \A b \in Backends :
          /\ Ok(b)
          /\ \E r \in RowsOf(b, "aiogram_data", LastUser) : r.chat # LastChat
          /\ \E r \in RowsOf(b, "aiogram_state", LastUser) :
                /\ r.chat # LastChat
                /\ <<r.chat, r.user>> \in Storage_get_states_list(b, Store(b)).res.val

\* C13: get_data(c,u,default) never returns None; when the data table holds no row
\* with chat c and user u it returns the default if that is a non-empty mapping, and
\* the empty mapping if the default is None or empty.
C13_GetDataDefault ==
    \A b \in Backends :
        (last.op = "get_data" /\ Ok(b))
        => /\ last.res[b].val.t = "dict"
           /\ (~\E r \in database[b]["aiogram_data"].rows :
                    r.chat = LastChat /\ r.user = LastUser)
              => last.res[b].val = (IF TruthyDict(last.arg) THEN last.arg ELSE EmptyDict)

\* get_data(c,u,default=None) has returned the empty mapping while the only data row
\* of u is one stored under another chat.
C13_Witness ==
    /\ last.op = "get_data" /\ last.arg = PyNone
    /\ \A b \in Backends :
          /\ Ok(b)
          /\ last.res[b].val = EmptyDict
          /\ \E r \in RowsOf(b, "aiogram_data", LastUser) : r.chat # LastChat

\* What get_data (for update_data) or get_bucket (for update_bucket) reads for the
\* key of call c on the SQLiteStorage st.
ReadBack(st, c) ==
    IF c.op = "update_data" THEN SQLiteStorage_get_data(st, c.chat, c.user, PyNone).res.val
    ELSE SQLiteStorage_get_bucket(st, c.chat, c.user, EmptyDict).res.val

\* C14 as claimed, for calls that do not interleave: when two update_data (or two
\* update_bucket) calls on the same (chat,user) key return one after the other, each
\* having run with no step of another task in between, the mapping stored for the key
\* holds the keys of both calls.
C14_SequentialUpdatesKeepKeys ==
    [][\A t \in Tasks :
          LET A == coro.prev
              B == coro'.prev
          IN  (/\ coro.task[t].pc = "upsert" /\ coro'.task[t].pc = "done"
               /\ A.err = "" /\ A.alone /\ B.err = "" /\ B.alone
               /\ A.op = B.op /\ A.chat = B.chat /\ A.user = B.user)
              => (DOMAIN A.data.m \cup DOMAIN B.data.m)
                     \subseteq DOMAIN ReadBack(StoreNext("sqlite"), B).m]_vars

\* C15 as claimed: one SQLiteStorage opens at most one connection, also when two
\* calls enter get_db before the handle is set.
C15_OneConnection == coro.opened <= 1

\* C16 as claimed: when get_db has returned, the three tables exist, also after a
\* reset_all on the same storage, and no set_state or get_state fails on a missing
\* table.
C16_GetDbRecreatesTables ==
    \A b \in Backends :
        /\ (last.op = "get_db" /\ Ok(b)) => \A t \in TableNames : database[b][t].exists
        /\ last.op \in {"set_state", "get_state"} => last.res[b].err # "NoSuchTable"

\* C17 as claimed: right after set_state(c,u,s) with s not None has returned,
\* get_state(c,u,default=D) returns s, for every D, whatever chat the row of u was
\* stored under before.
C17_ReadAfterWrite ==
    \A b \in Backends :
        (last.op = "set_state" /\ last.arg # None /\ Ok(b))
        => \A D \in Defaults :
              Storage_get_state(b, Store(b), last.chat, last.user, D).res
                  = [err |-> "", val |-> last.arg]

\* C18 as claimed: what get_bucket(c,u) returns is a mapping, never None, and
\* update_bucket does not fail on a bucket that is None.
C18_BucketNeverNull ==
    \A b \in Backends :
        /\ (last.op = "get_bucket" /\ Ok(b)) => last.res[b].val.t = "dict"
        /\ last.op = "update_bucket" => last.res[b].err # "AttributeError"

\* C19 as claimed: a task that get_db has returned the handle to, and whose statement
\* is about to run on it, finds all three tables created.
C19_TablesCreatedBeforeQuery ==
    \A t \in Tasks :
        coro.task[t].pc \in {"select", "upsert"}
        => \A tbl \in TableNames : database["sqlite"][tbl].exists

\* The table a keyed call writes to.
OwnTable(op) ==
    IF op \in {"set_state", "get_state"} THEN "aiogram_state"
    ELSE IF op \in {"set_data", "get_data", "update_data"} THEN "aiogram_data"
    ELSE "aiogram_bucket"

\* C20: a set_state, set_data, set_bucket, update_data or update_bucket call for user
\* u, whether it returns or raises, leaves every row as it was except the rows of u
\* in the call's own table; get_state, get_data, get_bucket and get_states_list
\* leave every row of every table as it was.
C20_Isolation ==
    [][\A b \in Backends, tbl \in TableNames :
          /\ (last'.op \in KeyedOps \ GetOps /\ ~AddressRaises(last'.chat, last'.user))
             => LET Other(rows) ==
                        {r \in rows : ~(tbl = OwnTable(last'.op)
                                        /\ r.user = AddressUser(last'.chat, last'.user))}
                IN  Other(database'[b][tbl].rows) = Other(database[b][tbl].rows)
          /\ last'.op \in GetOps
             => database'[b][tbl].rows = database[b][tbl].rows]_vars

\* set_state(c,u,None) has returned and deleted the state row of u, while another
\* user has a row in each of the three tables.
C20_Witness ==
    /\ last.op = "set_state" /\ last.arg = None
    /\ \A b \in Backends :
          /\ Ok(b)
          /\ \A tbl \in TableNames : RowsOf(b, tbl, LastUser) = {}
          /\ \E u \in Users \ {LastUser} : \A tbl \in TableNames : RowsOf(b, tbl, u) # {}

====
